---------------------------- MODULE Spec2Model ----------------------------
(***************************************************************************)
(* A model of remodel (include/Remodel.hpp): wrappers bound to raw         *)
(* addresses, PtrGetters computing effective addresses, typed fields       *)
(* reading and writing target memory, instantiable wrappers with optional  *)
(* construct/destruct hooks, and the module root.                          *)
(*                                                                         *)
(* Target memory is byte addressed and sparse: only the addresses in       *)
(* Mapped hold bytes; any load or store outside Mapped is a fault that     *)
(* ends the process.  Addresses are PtrSize bytes wide and all uintptr_t   *)
(* arithmetic wraps modulo AddrSpace.  Words are little endian.            *)
(***************************************************************************)
EXTENDS Integers, Sequences, FiniteSets, TLC

VARIABLES
    mem,        \* target memory: [Mapped -> Byte]
    fault,      \* TRUE once a load or store hit an unmapped address
    last,       \* label of the operation that produced the current state
    getter,     \* the PtrGetter object under test (its member variables)
    applied,    \* <<base, result>> of its applications since mem last changed
    vtbl,       \* the synthetic function tables, as sequences of slot values
    wrap,       \* the wrapper values: [WIds -> wrapper record or NoWrapper]
    writes,     \* number of stores done through fields
    cls,        \* the wrapper class' hook declarations
    inst,       \* the instantiable wrapper values
    hooks,      \* log of the user hooks invoked
    loaded,     \* the module-resolution service's table: name -> base or 0
    svcLog,     \* the names the resolution service was asked for
    modRes,     \* the optional returned by the last getModule
    decl,       \* the field of the wrapper class last defined, if accepted
    glob,       \* the function-local static of Global::instance
    seen        \* the previous invocation or read through a wrapper member

vars == <<mem, fault, last, getter, applied, vtbl, wrap, writes,
          cls, inst, hooks, loaded, svcLog, modRes, decl, glob, seen>>

getterVars == <<getter, applied, vtbl>>
instVars == <<cls, inst, hooks>>
moduleVars == <<loaded, svcLog, modRes>>
declVars == <<decl>>

---------------------------------------------------------------------------
(* Widths and the layout of the target memory.                             *)

ByteBits == 8
PtrSize == 2
NSlots == 3

ByteMod == 2 ^ ByteBits
AddrSpace == ByteMod ^ PtrSize
NullPtr == 0

\* uintptr_t arithmetic: results are reduced modulo 2^(pointer width).
WrapAddr(a) == a % AddrSpace

AgeOffs == 124
HatesOffs == 125

ObjA == 4096
ObjB == 8192
Tab1 == 12288
Tab2 == 12544
DataA == 16384
CodeBase == 20480

Objects == {ObjA, ObjB}
Tables == {Tab1, Tab2}
VOffsets == {0, PtrSize}
RaceOffs == 2 * PtrSize

Span(a, n) == {WrapAddr(a + k) : k \in 0..(n - 1)}

ObjSpan(o) == Span(o, 3 * PtrSize) \cup {o + AgeOffs, o + HatesOffs}

Mapped ==
    UNION {ObjSpan(o) : o \in Objects}
    \cup UNION {Span(t, NSlots * PtrSize) : t \in Tables}
    \cup Span(DataA, PtrSize)

---------------------------------------------------------------------------
(* Loads and stores of n-byte little-endian values.                        *)

ByteOf(v, k) == (v \div (ByteMod ^ k)) % ByteMod

Readable(a, n) == Span(a, n) \subseteq Mapped

RECURSIVE Load(_, _, _)
Load(m, a, n) ==
    IF n = 0 THEN 0
    ELSE m[a] + ByteMod * Load(m, WrapAddr(a + 1), n - 1)

Store(m, a, n, v) ==
    [x \in DOMAIN m |->
        IF x \in Span(a, n)
        THEN ByteOf(v, CHOOSE k \in 0..(n - 1) : WrapAddr(a + k) = x)
        ELSE m[x]]

---------------------------------------------------------------------------
(* PtrGetters.                                                             *)

Offs(d) == [kind |-> "offs", offs |-> d]
Abs(p) == [kind |-> "abs", ptr |-> p]
Vft(i, vo) == [kind |-> "vft", idx |-> i, vo |-> vo]

\* A faulty OffsGetter that applies the displacement with the wrong sign.
OffsGetterNegated(g, raw) == WrapAddr(raw - g.offs)

\* OffsGetter::operator(): the signed m_offs is added to the address as an
\* unsigned pointer-width integer.
OffsGetter(g, raw) == WrapAddr(raw + g.offs)

\* AbsGetter::AbsGetter(uintptr_t ptr): delegates to the pointer constructor
\* with reinterpret_cast<void*>(ptr), the address of that integer value.
AbsGetterUint(ptr) == Abs(WrapAddr(ptr))

\* A faulty AbsGetter that treats its pointer as relative to the base.
AbsGetterRelative(g, raw) == WrapAddr(raw + g.ptr)

\* AbsGetter::operator(): the base is ignored.
AbsGetter(g, raw) == g.ptr

VfTablePtrAddr(g, raw) == WrapAddr(raw + g.vo)

\* A faulty slot address that forgets to scale the index by the slot size.
VfTableSlotAddrUnscaled(g, m, raw) ==
    WrapAddr(Load(m, VfTablePtrAddr(g, raw), PtrSize) + g.idx)

VfTableSlotAddr(g, m, raw) ==
    WrapAddr(Load(m, VfTablePtrAddr(g, raw), PtrSize) + g.idx * PtrSize)

VfTableGetter(g, m, raw) == Load(m, VfTableSlotAddr(g, m, raw), PtrSize)

\* The loads a getter does stay inside mapped memory.
GetterReadable(g, m, raw) ==
    g.kind = "vft" =>
        /\ Readable(VfTablePtrAddr(g, raw), PtrSize)
        /\ Readable(VfTableSlotAddr(g, m, raw), PtrSize)

\* A faulty dispatch whose OffsGetter adds a byte it loads from the datum.
PtrGetterLoading(g, m, raw) ==
    CASE g.kind = "offs" -> WrapAddr(OffsGetter(g, raw) + m[DataA])
      [] g.kind = "abs" -> AbsGetter(g, raw)
      [] g.kind = "vft" -> VfTableGetter(g, m, raw)

\* FieldBase::PtrGetter, a std::function<void*(void*)> holding one of the
\* three functors.
PtrGetter(g, m, raw) ==
    CASE g.kind = "offs" -> OffsGetter(g, raw)
      [] g.kind = "abs" -> AbsGetter(g, raw)
      [] g.kind = "vft" -> VfTableGetter(g, m, raw)

---------------------------------------------------------------------------
(* The initial target memory: two objects, two function tables, one datum. *)

SlotValue(t, i) == CodeBase + (IF t = Tab1 THEN 0 ELSE 256) + 16 * i

Table0(t) == [i \in 1..NSlots |-> SlotValue(t, i - 1)]

ObjWords(o) ==
    <<[at |-> o, n |-> PtrSize, v |-> Tab1],
      [at |-> o + PtrSize, n |-> PtrSize, v |-> Tab2],
      [at |-> o + RaceOffs, n |-> PtrSize, v |-> DataA],
      [at |-> o + AgeOffs, n |-> 1, v |-> 3],
      [at |-> o + HatesOffs, n |-> 1, v |-> 1]>>

TabWords(t) == [i \in 1..NSlots |->
    [at |-> t + (i - 1) * PtrSize, n |-> PtrSize, v |-> SlotValue(t, i - 1)]]

RECURSIVE StoreAll(_, _)
StoreAll(m, ws) ==
    IF ws = <<>> THEN m
    ELSE StoreAll(Store(m, Head(ws).at, Head(ws).n, Head(ws).v), Tail(ws))

Mem0 ==
    StoreAll([x \in Mapped |-> 0],
             ObjWords(ObjA) \o ObjWords(ObjB) \o TabWords(Tab1) \o TabWords(Tab2)
             \o <<[at |-> DataA, n |-> PtrSize, v |-> 10]>>)

---------------------------------------------------------------------------
(* Specification SpecGetters: one PtrGetter object is constructed and then *)
(* applied to base addresses, while the program owning the memory patches  *)
(* function-table slots and retargets vtable pointers.                     *)

MaxWrites == 2

Displacements ==
    {-(AddrSpace \div 2), -5, -1, 0, 1, AgeOffs, (AddrSpace \div 2) - 1}

Getters ==
    {Offs(d) : d \in Displacements}
    \cup {Abs(p) : p \in {NullPtr, DataA}}
    \cup {AbsGetterUint(u) : u \in {DataA, AddrSpace - 1}}
    \cup {Vft(i, vo) : i \in 0..(NSlots - 1), vo \in VOffsets}

Bases == {NullPtr, ObjA, ObjB, AddrSpace - 1}

PatchValue == CodeBase + 1024

\* The parts of the state a specification does not use.
NoGetter == getter = Offs(0) /\ applied = {} /\ vtbl = <<>>
NoWrappers == wrap = <<>>
NoInstances == cls = <<>> /\ inst = <<>> /\ hooks = <<>>
NoModules == loaded = <<>> /\ svcLog = <<>> /\ modRes = <<>>
NoDecls == decl = <<>>
NoGlobal == glob = <<>>
NoSeen == seen = <<>>

InitGetters ==
    /\ mem = Mem0
    /\ fault = FALSE
    /\ last = [op |-> "init"]
    /\ getter \in Getters
    /\ applied = {}
    /\ vtbl = [t \in Tables |-> Table0(t)]
    /\ writes = 0
    /\ NoWrappers
    /\ NoInstances
    /\ NoModules
    /\ NoDecls
    /\ NoGlobal
    /\ NoSeen

\* operator() of the getter object on a base address.
ApplyGetter(base) ==
    /\ ~fault
    /\ \/ /\ GetterReadable(getter, mem, base)
          /\ last' = [op |-> "apply", base |-> base,
                      res |-> PtrGetter(getter, mem, base)]
          /\ applied' = applied \cup {<<base, PtrGetter(getter, mem, base)>>}
          /\ UNCHANGED fault
       \/ /\ ~GetterReadable(getter, mem, base)
          /\ last' = [op |-> "fault"]
          /\ fault' = TRUE
          /\ UNCHANGED applied
    /\ UNCHANGED <<mem, getter, vtbl, wrap, writes, instVars, declVars, glob, moduleVars, seen>>

\* The owner of the memory overwrites slot i of table t.
PatchSlot(t, i) ==
    /\ ~fault
    /\ writes < MaxWrites
    /\ mem' = Store(mem, t + i * PtrSize, PtrSize, PatchValue)
    /\ vtbl' = [vtbl EXCEPT ![t][i + 1] = PatchValue]
    /\ writes' = writes + 1
    /\ applied' = {}
    /\ last' = [op |-> "patch"]
    /\ UNCHANGED <<fault, getter, wrap, instVars, declVars, glob, moduleVars, seen>>

\* The owner of the memory points the vtable pointer at offset vo of object o
\* to table t.
RetargetVPtr(o, vo, t) ==
    /\ ~fault
    /\ writes < MaxWrites
    /\ mem' = Store(mem, o + vo, PtrSize, t)
    /\ writes' = writes + 1
    /\ applied' = {}
    /\ last' = [op |-> "retarget"]
    /\ UNCHANGED <<fault, getter, vtbl, wrap, instVars, declVars, glob, moduleVars, seen>>

NextGetters ==
    \/ \E base \in Bases : ApplyGetter(base)
    \/ \E t \in Tables, i \in 0..(NSlots - 1) : PatchSlot(t, i)
    \/ \E o \in Objects, vo \in VOffsets, t \in Tables : RetargetVPtr(o, vo, t)

SpecGetters == InitGetters /\ [][NextGetters]_vars

---------------------------------------------------------------------------
(* Properties of the PtrGetters, under SpecGetters.                        *)

\* The pointer-sized word at address a holds v, byte by byte.
WordAt(m, a, v) ==
    \A k \in 0..(PtrSize - 1) :
        /\ WrapAddr(a + k) \in Mapped
        /\ m[WrapAddr(a + k)] = ByteOf(v, k)

\* C1: whenever the word at objAddr + vo holds the address of a table, applying
\* VfTableGetter(i, vo) to objAddr returns the value of slot i of that table.
C1_VfTableSlot ==
    (last.op = "apply" /\ getter.kind = "vft") =>
        \A t \in Tables :
            WordAt(mem, last.base + getter.vo, t) =>
                last.res = vtbl[t][getter.idx + 1]

\* A patched slot 2 of the second table is returned for the object whose
\* vtable pointer at offset PtrSize points to it.
C1_Witness ==
    /\ last.op = "apply"
    /\ getter = Vft(2, PtrSize)
    /\ last.base = ObjB
    /\ WordAt(mem, ObjB + PtrSize, Tab2)
    /\ last.res = PatchValue
    /\ vtbl[Tab2][2] # PatchValue

\* base + d as an integer of pointer width, written without the remainder.
AddAtWidth(base, d) ==
    IF base + d < 0 THEN base + d + AddrSpace
    ELSE IF base + d >= AddrSpace THEN base + d - AddrSpace
    ELSE base + d

\* C10: OffsGetter(d) applied to base returns base + d at pointer width, for
\* negative, zero and positive d, and the same result for every application
\* to the same base.
C10_OffsGetter ==
    getter.kind = "offs" =>
        /\ last.op = "apply" => last.res = AddAtWidth(last.base, getter.offs)
        /\ \A p \in applied : p[2] = AddAtWidth(p[1], getter.offs)
        /\ \A p, q \in applied : p[1] = q[1] => p[2] = q[2]

\* A negative displacement applied to the null base wrapped around, and a
\* second base was applied as well.
C10_Witness ==
    /\ getter = Offs(-5)
    /\ <<NullPtr, AddrSpace - 5>> \in applied
    /\ last.op = "apply"
    /\ last.base = AddrSpace - 1
    /\ last.res = AddrSpace - 6

\* C11: AbsGetter(p) applied to any base, the null base included, returns p
\* without reading memory; the result does not depend on the base, and a
\* getter constructed from the uintptr_t representation of p returns the same.
C11_AbsGetter ==
    getter.kind = "abs" =>
        /\ ~fault
        /\ \A q \in applied : q[2] = getter.ptr
        /\ last.op = "apply" =>
              /\ last.res = getter.ptr
              /\ PtrGetter(AbsGetterUint(getter.ptr), mem, last.base) = last.res
              /\ \A b \in Bases : PtrGetter(getter, mem, b) = last.res

\* The getter for DataA was applied to the null base and to an object.
C11_Witness ==
    /\ getter = Abs(DataA)
    /\ <<NullPtr, DataA>> \in applied
    /\ last.op = "apply"
    /\ last.base = ObjA
    /\ last.res = DataA

---------------------------------------------------------------------------
(* Wrappers and fields.  The wrapper class of the model declares, like the *)
(* README's Dog, fields bound to `this` by default member initialisers.    *)

Wrappers == {"dog", "dog2"}

FNames == {"age", "hates", "race", "link", "glob", "entry"}

\* The declared type of each field and the PtrGetter it is constructed with.
FieldDecl ==
    [f \in FNames |->
        CASE f = "age" -> [type |-> "u8", ref |-> FALSE, getter |-> Offs(AgeOffs)]
          [] f = "hates" -> [type |-> "bool", ref |-> FALSE, getter |-> Offs(HatesOffs)]
          [] f = "race" -> [type |-> "uptr", ref |-> FALSE, getter |-> Offs(RaceOffs)]
          [] f = "link" -> [type |-> "u8", ref |-> TRUE, getter |-> Offs(RaceOffs)]
          [] f = "glob" -> [type |-> "u8", ref |-> FALSE, getter |-> Abs(DataA)]
          [] f = "entry" -> [type |-> "u8", ref |-> FALSE, getter |-> Vft(2, 0)]]

SizeOf(type) == IF type = "uptr" THEN PtrSize ELSE 1

FieldSize(f) == SizeOf(FieldDecl[f].type)

ValuesOf(type) ==
    CASE type = "u8" -> {5, ByteOf(ObjB, 1)}
      [] type = "bool" -> {0}
      [] type = "uptr" -> {ObjA + 1}

NoWrapper == [live |-> FALSE]

\* FieldBase::FieldBase: a field only records its parent and its getter.
FieldBase(parent, ptrGetter) == [parent |-> parent, getter |-> ptrGetter]

\* The fields the class of wrapper variable `this` declares: the variables in
\* Wrappers are of the class above, any other wrapper declares none.
DeclaredFields(this) == IF this \in Wrappers THEN FNames ELSE {}

\* A faulty constructor that leaves m_raw at its default member initialiser.
ClassWrapperDefaultRaw(this, raw) ==
    [live |-> TRUE, raw |-> NullPtr,
     fields |-> [f \in DeclaredFields(this) |-> FieldBase(this, FieldDecl[f].getter)]]

\* ClassWrapper::ClassWrapper(void* raw), followed by the default member
\* initialisers of the derived wrapper class, which bind each field to this.
ClassWrapper(this, raw) ==
    [live |-> TRUE, raw |-> raw,
     fields |-> [f \in DeclaredFields(this) |-> FieldBase(this, FieldDecl[f].getter)]]

\* A faulty copy constructor that does not pass other on to its base.
CopyWrapperUnbound(this, other) == ClassWrapper(this, NullPtr)

\* The copy constructor the REMODEL_WRAPPER macro defines: base(other), and
\* the fields are initialised afresh.
CopyWrapper(this, other) == ClassWrapper(this, other.raw)

addressOfObj(w) == w.raw

\* wrapper_cast(void*).
wrapper_cast(this, raw) == ClassWrapper(this, raw)

\* wrapper_cast(uintptr_t): casts the integer to void*, casts that, and
\* copy-constructs the result.
wrapper_cast_uint(this, raw) ==
    CopyWrapper(this, wrapper_cast("nrvo", WrapAddr(raw)))

\* WeakWrapperImpl::raw: the weak wrapper's own address.
WeakRaw(self) == self

\* A faulty toStrong that takes the wrapped address from the placeholder's
\* first word, as a strong wrapper would from m_raw.
toStrongStored(this, self) == wrapper_cast(this, Load(mem, self, PtrSize))

\* WeakWrapperImpl::toStrong.
toStrong(this, self) == wrapper_cast(this, self)

\* A faulty rawPtr that resolves the location against the memory as it was
\* when the wrapper was created.
rawPtrAtCreation(W, m, b) ==
    PtrGetter(b.getter, Mem0, IF b.parent \in DOMAIN W THEN W[b.parent].raw ELSE NullPtr)

\* FieldBase::rawPtr / crawPtr.
rawPtr(W, m, b) ==
    PtrGetter(b.getter, m, IF b.parent \in DOMAIN W THEN W[b.parent].raw ELSE NullPtr)

RawPtrReadable(W, m, b) ==
    GetterReadable(b.getter, m, IF b.parent \in DOMAIN W THEN W[b.parent].raw ELSE NullPtr)

\* A faulty valueRef that never does the extra dereference.
valueRefNoDeref(W, m, w, f) == rawPtr(W, m, W[w].fields[f])

\* Field::valueRef / valueCRef: the address of the wrapped object, with the
\* extra dereference of a reference field.
valueRef(W, m, w, f) ==
    IF FieldDecl[f].ref
    THEN Load(m, rawPtr(W, m, W[w].fields[f]), PtrSize)
    ELSE rawPtr(W, m, W[w].fields[f])

\* Field::addressOfObj: &valueRef()
FieldAddressOfObj(W, m, w, f) == valueRef(W, m, w, f)

\* Every load and store of an access to the field stays in mapped memory.
FieldAccessible(W, m, w, f) ==
    /\ RawPtrReadable(W, m, W[w].fields[f])
    /\ FieldDecl[f].ref => Readable(rawPtr(W, m, W[w].fields[f]), PtrSize)
    /\ Readable(valueRef(W, m, w, f), FieldSize(f))

\* Field::operator RewrittenT&, read as a value.
FieldValue(W, m, w, f) == Load(m, valueRef(W, m, w, f), FieldSize(f))

\* A faulty store that writes only the low byte of the value.
FieldWriteNarrow(W, m, w, f, v) == Store(m, valueRef(W, m, w, f), 1, v)

\* A faulty store that writes a value one byte wider than the field's type.
FieldWriteWide(W, m, w, f, v) ==
    Store(m, valueRef(W, m, w, f), FieldSize(f) + 1, v)

\* Field::operator=(const RewrittenT&): the memory after the store.
FieldWrite(W, m, w, f, v) ==
    Store(m, valueRef(W, m, w, f), FieldSize(f), v)

\* A faulty assignment that copies the right-hand field itself, member by
\* member, as the implicit copy assignment would.
FieldAssignRebinds(W, m, wa, fa, wb, fb) ==
    [wrap |-> [W EXCEPT ![wa].fields[fa] = W[wb].fields[fb]], mem |-> m]

\* Field::operator=(const Field&): the wrappers and the memory after it.
FieldAssign(W, m, wa, fa, wb, fb) ==
    [wrap |-> W, mem |-> FieldWrite(W, m, wa, fa, FieldValue(W, m, wb, fb))]

---------------------------------------------------------------------------
(* Specification SpecFields: wrappers are created by wrapper_cast and by   *)
(* promoting weak wrappers, and their fields are read, written and         *)
(* assigned to one another.                                                *)

CastAddrs == {ObjA, ObjB, Tab1}

\* The addresses of the weak wrappers (placeholders) in target memory.
WeakAddrs == {ObjB, ObjA + RaceOffs}

InitFields ==
    /\ mem = Mem0
    /\ fault = FALSE
    /\ last = [op |-> "init"]
    /\ wrap = [w \in Wrappers |-> NoWrapper]
    /\ writes = 0
    /\ NoGetter
    /\ NoInstances
    /\ NoModules
    /\ NoDecls
    /\ NoGlobal
    /\ NoSeen

\* auto w = wrapper_cast<Dog>(p), through either overload.
Cast(w, p, viaUint) ==
    /\ ~fault
    /\ ~wrap[w].live
    /\ wrap' = [wrap EXCEPT ![w] =
                    IF viaUint THEN wrapper_cast_uint(w, p) ELSE wrapper_cast(w, p)]
    /\ last' = [op |-> "cast", w |-> w, p |-> p, viaUint |-> viaUint]
    /\ UNCHANGED <<mem, fault, writes, getterVars, instVars, declVars, glob, moduleVars, seen>>

\* auto w = weak.toStrong(), for the weak wrapper at address self.
ToStrong(w, self) ==
    /\ ~fault
    /\ ~wrap[w].live
    /\ wrap' = [wrap EXCEPT ![w] = toStrong(w, self)]
    /\ last' = [op |-> "toStrong", w |-> w, self |-> WeakRaw(self)]
    /\ UNCHANGED <<mem, fault, writes, getterVars, instVars, declVars, glob, moduleVars, seen>>

\* A load or store outside mapped memory ends the process.
Fault ==
    /\ fault' = TRUE
    /\ last' = [op |-> "fault"]
    /\ UNCHANGED <<mem, wrap, writes>>

\* T v = w.f
ReadField(w, f) ==
    /\ ~fault
    /\ wrap[w].live
    /\ \/ /\ FieldAccessible(wrap, mem, w, f)
          /\ last' = [op |-> "read", w |-> w, f |-> f,
                      val |-> FieldValue(wrap, mem, w, f)]
          /\ UNCHANGED <<mem, fault, wrap, writes>>
       \/ /\ ~FieldAccessible(wrap, mem, w, f)
          /\ Fault
    /\ UNCHANGED <<getterVars, instVars, declVars, glob, moduleVars, seen>>

\* w.f = v
WriteField(w, f, v) ==
    /\ ~fault
    /\ wrap[w].live
    /\ writes < MaxWrites
    /\ \/ /\ FieldAccessible(wrap, mem, w, f)
          /\ mem' = FieldWrite(wrap, mem, w, f, v)
          /\ writes' = writes + 1
          /\ last' = [op |-> "write", w |-> w, f |-> f, v |-> v]
          /\ UNCHANGED <<fault, wrap>>
       \/ /\ ~FieldAccessible(wrap, mem, w, f)
          /\ Fault
    /\ UNCHANGED <<getterVars, instVars, declVars, glob, moduleVars, seen>>

\* wa.fa = wb.fb, for two fields of the same declared type.
AssignField(wa, fa, wb, fb) ==
    /\ ~fault
    /\ wrap[wa].live
    /\ wrap[wb].live
    /\ writes < MaxWrites
    /\ FieldDecl[fa].type = FieldDecl[fb].type
    /\ FieldDecl[fa].ref = FieldDecl[fb].ref
    /\ \/ /\ FieldAccessible(wrap, mem, wa, fa)
          /\ FieldAccessible(wrap, mem, wb, fb)
          /\ wrap' = FieldAssign(wrap, mem, wa, fa, wb, fb).wrap
          /\ mem' = FieldAssign(wrap, mem, wa, fa, wb, fb).mem
          /\ writes' = writes + 1
          /\ last' = [op |-> "assign", w |-> wa, f |-> fa, wb |-> wb, fb |-> fb]
          /\ UNCHANGED fault
       \/ /\ ~(FieldAccessible(wrap, mem, wa, fa) /\ FieldAccessible(wrap, mem, wb, fb))
          /\ Fault
    /\ UNCHANGED <<getterVars, instVars, declVars, glob, moduleVars, seen>>

NextFields ==
    \/ \E w \in Wrappers, p \in CastAddrs, viaUint \in BOOLEAN : Cast(w, p, viaUint)
    \/ \E w \in Wrappers, self \in WeakAddrs : ToStrong(w, self)
    \/ \E w \in Wrappers, f \in FNames : ReadField(w, f)
    \/ \E w \in Wrappers, f \in FNames :
            \E v \in ValuesOf(FieldDecl[f].type) : WriteField(w, f, v)
    \/ \E wa, wb \in Wrappers, fa, fb \in FNames : AssignField(wa, fa, wb, fb)

SpecFields == InitFields /\ [][NextFields]_vars

---------------------------------------------------------------------------
(* Specification SpecRefs: one wrapper's plain field and reference field   *)
(* are read and written while the wrapped program repoints the pointer     *)
(* that stores the reference.                                              *)

RefFields == {"age", "link"}

\* Where the wrapped program lets the stored reference point: at another
\* object's member, or at the pointer itself.
RefTargets == {ObjB + AgeOffs, ObjA + RaceOffs}

\* The wrapped program stores p in the pointer-sized member of object o.
Repoint(o, p) ==
    /\ ~fault
    /\ writes < MaxWrites
    /\ mem' = Store(mem, o + RaceOffs, PtrSize, p)
    /\ writes' = writes + 1
    /\ last' = [op |-> "repoint", o |-> o, p |-> p]
    /\ UNCHANGED <<fault, wrap, getterVars, instVars, moduleVars, declVars, glob, seen>>

NextRefs ==
    \/ \E p \in Objects : Cast("dog", p, FALSE)
    \/ \E f \in RefFields : ReadField("dog", f)
    \/ \E f \in RefFields : \E v \in ValuesOf(FieldDecl[f].type) :
          WriteField("dog", f, v)
    \/ \E o \in Objects, p \in RefTargets : Repoint(o, p)

SpecRefs == InitFields /\ [][NextRefs]_vars

---------------------------------------------------------------------------
(* Specification SpecCalls: wrappers are created, copied and assigned to   *)
(* one another, the function wrappers they declare and free function       *)
(* wrappers are invoked, and the wrapped program changes the dynamic type  *)
(* of its objects.                                                         *)

\* A faulty operator= that assigns member by member, fields included, as an
\* implicit copy assignment would.
AssignWrapperMemberwise(self, other) == other

\* ClassWrapper::operator=, reached through the operator= of the wrapper
\* class: only m_raw is assigned, the fields of self stay bound to self.
AssignWrapperTo(self, other) == [self EXCEPT !.raw = other.raw]

FetchAddr == CodeBase + 512
FreeAddr == CodeBase + 768

NullParent == "nullptr"

\* MemberFunctionImpl::MemberFunctionImpl(parent, ptrGetter)
MemberFunction(parent, ptrGetter) == FieldBase(parent, ptrGetter)

\* MemberFunction::MemberFunction(parent, uintptr_t absAddress)
MemberFunctionUint(parent, absAddress) ==
    MemberFunction(parent, AbsGetterUint(absAddress))

\* VirtualFunction::VirtualFunction(parent, vftableIdx, vftableOffset)
VirtualFunction(parent, vftableIdx, vftableOffset) ==
    MemberFunction(parent, Vft(vftableIdx, vftableOffset))

\* A faulty default that takes the second vtable pointer of the object.
VirtualFunctionDefaultSecond(parent, vftableIdx) ==
    VirtualFunction(parent, vftableIdx, PtrSize)

\* VirtualFunction{parent, vftableIdx}: vftableOffset takes its default.
VirtualFunctionDefault(parent, vftableIdx) ==
    VirtualFunction(parent, vftableIdx, 0)

\* FunctionImpl::FunctionImpl(ptrGetter): a free function has no parent.
Function(ptrGetter) == FieldBase(NullParent, ptrGetter)

\* Function::Function(uintptr_t absAddress)
FunctionUint(absAddress) == Function(AbsGetterUint(absAddress))

MemberFuncs == {"calculate_fluffiness", "give_goodie", "speak", "fetch"}

FreeFuncs == {"bark_all", "reset"}

\* The number of declared arguments of each function wrapper's signature.
Arity ==
    [fn \in MemberFuncs \cup FreeFuncs |->
        CASE fn = "calculate_fluffiness" -> 0
          [] fn = "give_goodie" -> 1
          [] fn = "speak" -> 2
          [] fn = "fetch" -> 1
          [] fn = "bark_all" -> 2
          [] fn = "reset" -> 0]

\* The function wrappers the wrapper class declares, each bound to `this` by
\* its default member initialiser.
MemberFuncDecl(this, fn) ==
    CASE fn = "calculate_fluffiness" -> VirtualFunctionDefault(this, 0)
      [] fn = "give_goodie" -> VirtualFunctionDefault(this, 1)
      [] fn = "speak" -> VirtualFunction(this, 2, PtrSize)
      [] fn = "fetch" -> MemberFunctionUint(this, FetchAddr)

\* The free function wrappers: one from an absolute address, one from a
\* custom PtrGetter.
FreeFuncDecl(fn) ==
    CASE fn = "bark_all" -> FunctionUint(FreeAddr)
      [] fn = "reset" -> Function(Offs(SlotValue(Tab1, 1)))

\* The values passed as arguments to hooks and wrapped functions.
ArgVals == {1, 2}

ArgLists(n) == [1..n -> ArgVals]

\* A faulty member call that passes only the declared arguments.
MemberFunctionImplCallNoThis(W, m, b, args) ==
    [target |-> rawPtr(W, m, b), args |-> args]

\* MemberFunctionImpl::operator(): get()(addressOfObj(*m_parent), args...)
MemberFunctionImplCall(W, m, b, args) ==
    [target |-> rawPtr(W, m, b),
     args |-> <<addressOfObj(W[b.parent])>> \o args]

\* A faulty free call that passes the resolved address as a first argument.
FunctionImplCallWithThis(W, m, b, args) ==
    [target |-> rawPtr(W, m, b), args |-> <<rawPtr(W, m, b)>> \o args]

\* FunctionImpl::operator(): get()(args...)
FunctionImplCall(W, m, b, args) ==
    [target |-> rawPtr(W, m, b), args |-> args]

InitCalls ==
    /\ mem = Mem0
    /\ fault = FALSE
    /\ last = [op |-> "init"]
    /\ wrap = [w \in Wrappers |-> NoWrapper]
    /\ writes = 0
    /\ NoGetter
    /\ NoInstances
    /\ NoModules
    /\ NoDecls
    /\ NoGlobal
    /\ NoSeen

\* Dog w{src}
CopyConstruct(w, src) ==
    /\ ~fault
    /\ ~wrap[w].live
    /\ wrap[src].live
    /\ wrap' = [wrap EXCEPT ![w] = CopyWrapper(w, wrap[src])]
    /\ last' = [op |-> "copy", dst |-> w, src |-> src]
    /\ UNCHANGED <<mem, fault, writes, getterVars, instVars, declVars, glob, moduleVars, seen>>

\* w = src
AssignWrapper(w, src) ==
    /\ ~fault
    /\ wrap[w].live
    /\ wrap[src].live
    /\ wrap' = [wrap EXCEPT ![w] = AssignWrapperTo(wrap[w], wrap[src])]
    /\ last' = [op |-> "assign", dst |-> w, src |-> src, old |-> wrap[w].raw]
    /\ UNCHANGED <<mem, fault, writes, getterVars, instVars, declVars, glob, moduleVars, seen>>

\* w.fn(args...)
CallMember(w, fn, args) ==
    /\ ~fault
    /\ wrap[w].live
    /\ \/ /\ RawPtrReadable(wrap, mem, MemberFuncDecl(w, fn))
          /\ last' = [op |-> "call", w |-> w, fn |-> fn, given |-> args,
                      call |-> MemberFunctionImplCall(wrap, mem,
                                                      MemberFuncDecl(w, fn), args)]
          /\ UNCHANGED <<mem, fault, wrap, writes>>
       \/ /\ ~RawPtrReadable(wrap, mem, MemberFuncDecl(w, fn))
          /\ Fault
    /\ UNCHANGED <<getterVars, instVars, declVars, glob, moduleVars, seen>>

\* fn(args...), for a free function wrapper
CallFree(fn, args) ==
    /\ ~fault
    /\ last' = [op |-> "callfree", fn |-> fn, given |-> args,
                call |-> FunctionImplCall(wrap, mem, FreeFuncDecl(fn), args)]
    /\ UNCHANGED <<mem, fault, wrap, writes, getterVars, instVars, declVars, glob, moduleVars, seen>>

\* The wrapped program stores the address of table t in the vtable pointer at
\* offset 0 of object o.
Revirtualise(o, t) ==
    /\ ~fault
    /\ writes < MaxWrites
    /\ mem' = Store(mem, o, PtrSize, t)
    /\ writes' = writes + 1
    /\ last' = [op |-> "revirtualise"]
    /\ UNCHANGED <<fault, wrap, getterVars, instVars, declVars, glob, moduleVars, seen>>

NextCalls ==
    \/ \E w \in Wrappers, p \in CastAddrs, viaUint \in BOOLEAN : Cast(w, p, viaUint)
    \/ \E w, src \in Wrappers : CopyConstruct(w, src)
    \/ \E w, src \in Wrappers : AssignWrapper(w, src)
    \/ \E w \in Wrappers, fn \in MemberFuncs :
          \E args \in ArgLists(Arity[fn]) : CallMember(w, fn, args)
    \/ \E fn \in FreeFuncs : \E args \in ArgLists(Arity[fn]) : CallFree(fn, args)
    \/ \E o \in Objects, t \in Tables : Revirtualise(o, t)

SpecCalls == InitCalls /\ [][NextCalls]_vars

---------------------------------------------------------------------------
(* Specification SpecInstances: values of WrapperT::Instantiable are       *)
(* created with two arguments and torn down.  The wrapper class declares   *)
(* nCtor member functions named construct and nDtor named destruct.        *)

MaxOverloads == 2

InstIds == {"x", "y"}

\* Where the value's own buffer m_data lies.
BufAddr(i) == IF i = "x" THEN DataA + 256 ELSE DataA + 512

\* InstantiableWrapper::HasCustomCtor::Value: test(decltype(&C::construct)) is
\* viable only if &C::construct is well formed, which it is when construct
\* names exactly one member function, and not for an overload set.
HasCustomCtor(c) == c.nCtor = 1

\* InstantiableWrapper::HasCustomDtor::Value, likewise.
HasCustomDtor(c) == c.nDtor = 1

\* InstantiableWrapperCtorCaller<WrapperT, useCustomCtorT, ArgsT...>::Call:
\* the hook log after it.
InstantiableWrapperCtorCaller(useCustomCtor, log, i, thiz, a, b) ==
    IF useCustomCtor
    THEN Append(log, [hook |-> "construct", inst |-> i, this |-> thiz, args |-> <<a, b>>])
    ELSE log

\* InstantiableWrapperDtorCaller<WrapperT, useCustomDtorT>::Call.
InstantiableWrapperDtorCaller(useCustomDtor, log, i, thiz) ==
    IF useCustomDtor
    THEN Append(log, [hook |-> "destruct", inst |-> i, this |-> thiz, args |-> <<>>])
    ELSE log

InitInstances ==
    /\ mem = Mem0
    /\ fault = FALSE
    /\ last = [op |-> "init"]
    /\ cls \in [nCtor : 0..MaxOverloads, nDtor : 0..MaxOverloads]
    /\ inst = [i \in InstIds |-> [st |-> "none"]]
    /\ hooks = <<>>
    /\ writes = 0
    /\ NoGetter
    /\ NoWrappers
    /\ NoModules
    /\ NoDecls
    /\ NoGlobal
    /\ NoSeen

\* WrapperT::Instantiable i{a, b}: InstantiableWrapper's constructor binds the
\* wrapper to its buffer and then calls the constructor caller.
Create(i, a, b) ==
    /\ inst[i].st = "none"
    /\ inst' = [inst EXCEPT ![i] = [st |-> "live", w |-> ClassWrapper(i, BufAddr(i))]]
    /\ hooks' = InstantiableWrapperCtorCaller(HasCustomCtor(cls), hooks, i,
                                              BufAddr(i), a, b)
    /\ last' = [op |-> "create", i |-> i, args |-> <<a, b>>]
    /\ UNCHANGED <<mem, fault, cls, wrap, writes, getterVars, moduleVars, declVars, glob, seen>>

\* The value's lifetime ends: ~InstantiableWrapper calls the destructor caller.
Destroy(i) ==
    /\ inst[i].st = "live"
    /\ hooks' = InstantiableWrapperDtorCaller(HasCustomDtor(cls), hooks, i,
                                              addressOfObj(inst[i].w))
    /\ inst' = [inst EXCEPT ![i] = [st |-> "dead"]]
    /\ last' = [op |-> "destroy", i |-> i]
    /\ UNCHANGED <<mem, fault, cls, wrap, writes, getterVars, moduleVars, declVars, glob, seen>>

NextInstances ==
    \/ \E i \in InstIds, a, b \in ArgVals : Create(i, a, b)
    \/ \E i \in InstIds : Destroy(i)

SpecInstances == InitInstances /\ [][NextInstances]_vars

---------------------------------------------------------------------------
(* Specification SpecRoots: Module::getModule asks the platform's module   *)
(* resolution service, whose table of loaded modules changes as modules    *)
(* are loaded and unloaded.                                                *)

MaxCalls == 2

ModBase == 24576

ModNames == {"ntdll.dll", "game.exe"}

ModBases == {ModBase, ModBase + 4096}

\* platform::obtainModuleHandle: the base address of the named module, or
\* null if no such module is loaded.
obtainModuleHandle(tbl, name) == tbl[name]

kEmpty == [present |-> FALSE]

\* A faulty getModule that wraps whatever the service returned.
getModuleUnchecked(modulePtr) ==
    [present |-> TRUE, value |-> wrapper_cast("module", modulePtr)]

\* Module::getModule, after the service's answer.
getModule(modulePtr) ==
    IF modulePtr = NullPtr THEN kEmpty
    ELSE [present |-> TRUE, value |-> wrapper_cast("module", modulePtr)]

\* The function-local static `thiz` of Global::instance before the first call:
\* not constructed yet.
GlobalStatic0 == [constructed |-> FALSE, ctors |-> 0, calls |-> 0, w |-> NoWrapper]

\* The name of that static; its address is what instance() returns.
GlobalThiz == "thiz"

\* Global::Global(): ClassWrapper{nullptr}
GlobalCtor(this) == ClassWrapper(this, NullPtr)

\* `static Global thiz;` on a call of instance(): the static is constructed if
\* control passes its declaration for the first time.
GlobalEnter(g) ==
    IF g.constructed THEN g
    ELSE [g EXCEPT !.constructed = TRUE, !.ctors = g.ctors + 1,
                   !.w = GlobalCtor(GlobalThiz)]

InitRoots ==
    /\ mem = Mem0
    /\ fault = FALSE
    /\ last = [op |-> "init"]
    /\ loaded \in [ModNames -> {NullPtr} \cup ModBases]
    /\ svcLog = <<>>
    /\ modRes = kEmpty
    /\ writes = 0
    /\ NoGetter
    /\ NoWrappers
    /\ NoInstances
    /\ NoDecls
    /\ glob = GlobalStatic0
    /\ NoSeen

\* auto m = Module::getModule(name)
GetModule(name) ==
    /\ Len(svcLog) < MaxCalls
    /\ svcLog' = Append(svcLog, name)
    /\ modRes' = getModule(obtainModuleHandle(loaded, name))
    /\ last' = [op |-> "getModule", name |-> name]
    /\ UNCHANGED <<mem, fault, loaded, wrap, writes, getterVars, instVars, declVars, glob, seen>>

\* The process loads a module at a base address.
LoadModule(name, base) ==
    /\ loaded[name] = NullPtr
    /\ loaded' = [loaded EXCEPT ![name] = base]
    /\ last' = [op |-> "load"]
    /\ UNCHANGED <<mem, fault, svcLog, modRes, wrap, writes, getterVars, instVars, declVars, glob, seen>>

\* The process unloads a module.
UnloadModule(name) ==
    /\ loaded[name] # NullPtr
    /\ loaded' = [loaded EXCEPT ![name] = NullPtr]
    /\ last' = [op |-> "unload"]
    /\ UNCHANGED <<mem, fault, svcLog, modRes, wrap, writes, getterVars, instVars, declVars, glob, seen>>

\* Global* g = Global::instance()
Instance ==
    /\ glob.calls < MaxCalls
    /\ glob' = [GlobalEnter(glob) EXCEPT !.calls = glob.calls + 1]
    /\ last' = [op |-> "instance", ret |-> GlobalThiz, first |-> ~glob.constructed]
    /\ UNCHANGED <<mem, fault, wrap, writes, getterVars, instVars, moduleVars, declVars, seen>>

\* *Global::instance() = wrapper_cast<Global>(p): the operator= that the
\* REMODEL_WRAPPER macro declares in Global, applied to the singleton.
AssignGlobal(p) ==
    /\ glob.calls < MaxCalls
    /\ glob' = [GlobalEnter(glob) EXCEPT
                    !.calls = glob.calls + 1,
                    !.w = AssignWrapperTo(GlobalEnter(glob).w, wrapper_cast("tmp", p))]
    /\ last' = [op |-> "assignGlobal", ret |-> GlobalThiz, p |-> p]
    /\ UNCHANGED <<mem, fault, wrap, writes, getterVars, instVars, moduleVars, declVars, seen>>

NextRoots ==
    \/ Instance
    \/ \E p \in ModBases : AssignGlobal(p)
    \/ \E name \in ModNames : GetModule(name)
    \/ \E name \in ModNames, base \in ModBases : LoadModule(name, base)
    \/ \E name \in ModNames : UnloadModule(name)

SpecRoots == InitRoots /\ [][NextRoots]_vars

---------------------------------------------------------------------------
(* Specification SpecDecls: a wrapper class declaring one Field<T> is      *)
(* defined, for any field type T of up to MaxQuals qualifiers; the         *)
(* definition is accepted or rejected with a diagnostic, and the field of  *)
(* an accepted class over an 8-bit integer is read and written.            *)

MaxQuals == 2
MaxN == 2

\* u8 is arithmetic, Pod a trivial class, NonTrivial a class with a
\* constructor, Plain derives from ClassWrapper only and Adv from
\* AdvancedClassWrapper.
BaseTypes == {"u8", "Pod", "NonTrivial", "Plain", "Adv"}

Q(q, n) == [q |-> q, n |-> n]

\* The qualifiers of the table above FieldImpl: *, &, &&, [] and [N].
Qualifiers ==
    {Q("ptr", 0), Q("lref", 0), Q("rref", 0), Q("arrU", 0)}
    \cup {Q("arr", n) : n \in 1..MaxN}

\* A type is its base type and its qualifiers from the innermost to the
\* outermost: int*& is [base |-> "u8", quals |-> <<*, &>>].
Ty(base, quals) == [base |-> base, quals |-> quals]

\* The types C++ can form: a reference is the outermost qualifier, and an
\* array of unknown bound is no array element.
ValidType(T) ==
    \A k \in 1..(Len(T.quals) - 1) :
        /\ T.quals[k].q \notin {"lref", "rref"}
        /\ T.quals[k].q = "arrU" => T.quals[k + 1].q \notin {"arr", "arrU"}

FieldTypes ==
    {T \in [base : BaseTypes,
            quals : UNION {[1..k -> Qualifiers] : k \in 0..MaxQuals}] :
        ValidType(T)}

Outer(T) == IF Len(T.quals) = 0 THEN "none" ELSE T.quals[Len(T.quals)].q

\* std::is_reference<T>::value
is_reference(T) == Outer(T) \in {"lref", "rref"}

\* std::remove_reference_t<T>
remove_reference_t(T) ==
    IF is_reference(T)
    THEN Ty(T.base, SubSeq(T.quals, 1, Len(T.quals) - 1))
    ELSE T

\* std::is_base_of<ClassWrapper, BaseTypeT>::value
IsWrapperType(base) == base \in {"Plain", "Adv"}

\* BaseTypeT::IsAdvWrapper names a type.
IsAdvWrapper(base) == base = "Adv"

\* WeakWrapper<WrapperT>: a trivial class of kObjSize bytes.
WeakWrapper(base) == "WeakWrapper<" \o base \o ">"

Accepted(T) == [ok |-> TRUE, type |-> T]
Rejected(diag) == [ok |-> FALSE, diag |-> diag]

\* AnalyzeQualifiers<T>: step 1, the type dissected into its base type and
\* its stack of qualifiers.
AnalyzeQualifiers(T) == [BaseType |-> T.base, QualifierStack |-> T.quals]

\* ApplyQualifierStack<DstT, SrcT, QualifierStackT>: DstT under the
\* qualifiers taken off SrcT.
ApplyQualifierStack(DstT, SrcT, stack) == Ty(DstT, stack)

\* A faulty step 3 that rewrites plain wrappers as well.
RewriteWrappersStep3AnyWrapper(BaseTypeT, stack) ==
    Accepted(ApplyQualifierStack(WeakWrapper(BaseTypeT), BaseTypeT, stack))

\* RewriteWrappersStep3: the primary template rejects, the specialisation for
\* advanced wrappers rewrites the base type to its weak wrapper.
RewriteWrappersStep3(BaseTypeT, stack) ==
    IF IsAdvWrapper(BaseTypeT)
    THEN Accepted(ApplyQualifierStack(WeakWrapper(BaseTypeT), BaseTypeT, stack))
    ELSE Rejected("using wrapped types in fields requires usage of AdvancedClassWrapper as base")

\* A faulty step 2 that takes every base type for a non-wrapper.
RewriteWrappersStep2NoRewrite(BaseTypeT, stack) ==
    Accepted(ApplyQualifierStack(BaseTypeT, BaseTypeT, stack))

\* RewriteWrappersStep2
RewriteWrappersStep2(BaseTypeT, stack) ==
    IF IsWrapperType(BaseTypeT)
    THEN RewriteWrappersStep3(BaseTypeT, stack)
    ELSE Accepted(ApplyQualifierStack(BaseTypeT, BaseTypeT, stack))

\* RewriteWrappers<T>
RewriteWrappers(T) ==
    RewriteWrappersStep2(AnalyzeQualifiers(T).BaseType,
                         AnalyzeQualifiers(T).QualifierStack)

\* std::is_trivial<T>::value for the class types: wrappers have a virtual
\* destructor.
IsTrivialClass(base) == base \notin {"NonTrivial", "Plain", "Adv"}

\* The specialisation of FieldImpl that the type R selects, and its
\* static_asserts.
FieldImpl(R) ==
    CASE Outer(R) = "arrU" ->
            Rejected("unknown size array struct fields are not permitted by the standard")
      [] Outer(R) = "arr" ->
            IF Len(R.quals) = 1 /\ IsWrapperType(R.base)
            THEN Rejected("internal library error")
            ELSE Accepted(R)
      [] Outer(R) = "rref" -> Rejected("rvalue-reference-fields are not supported")
      [] Outer(R) = "lref" -> Rejected("this types is not supported for wrapping")
      [] Outer(R) = "ptr" -> Accepted(R)
      [] Outer(R) = "none" ->
            IF R.base = "u8" THEN Accepted(R)
            ELSE IF ~IsTrivialClass(R.base)
            THEN Rejected("wrapping is only supported for trivial types")
            ELSE Accepted(R)

\* Field<T>: FieldImpl<RewriteWrappers<std::remove_reference_t<T>>>, with
\* kDoExtraDref = std::is_reference<T>::value.
Field(T) ==
    LET rw == RewriteWrappers(remove_reference_t(T))
    IN  IF ~rw.ok THEN rw
        ELSE IF ~FieldImpl(rw.type).ok THEN FieldImpl(rw.type)
        ELSE [ok |-> TRUE, type |-> T, RewrittenT |-> rw.type,
              kDoExtraDref |-> is_reference(T)]

NoField == Rejected("no class defined")

\* The offset the model declares the field at: a reference field over the
\* pointer-sized member, any other over the age.
DeclOffs(d) == IF d.kDoExtraDref THEN RaceOffs ELSE AgeOffs

\* Field::valueRef of the declared field, for a wrapper of ObjA.
DeclValueRef(m, d) ==
    IF d.kDoExtraDref
    THEN Load(m, OffsGetter(Offs(DeclOffs(d)), ObjA), PtrSize)
    ELSE OffsGetter(Offs(DeclOffs(d)), ObjA)

\* The declared field holds an 8-bit integer, directly or by reference.
IsByteField(d) == d.ok /\ d.RewrittenT = Ty("u8", <<>>)

InitDecls ==
    /\ mem = Mem0
    /\ fault = FALSE
    /\ last \in {[op |-> "source", type |-> T] : T \in FieldTypes}
    /\ decl = NoField
    /\ writes = 0
    /\ NoGetter
    /\ NoWrappers
    /\ NoInstances
    /\ NoModules
    /\ NoGlobal
    /\ NoSeen

\* The translation unit holding
\* class X : public ClassWrapper { REMODEL_WRAPPER(X) Field<T> f{this, offs}; };
\* is compiled.
Define ==
    /\ last.op = "source"
    /\ decl' = Field(last.type)
    /\ last' = [op |-> "define", type |-> last.type]
    /\ UNCHANGED <<mem, fault, wrap, writes, getterVars, instVars, moduleVars, glob, seen>>

\* uint8_t v = x.f, for x = wrapper_cast<X>(ObjA)
ReadDecl ==
    /\ IsByteField(decl)
    /\ Readable(DeclValueRef(mem, decl), 1)
    /\ last' = [op |-> "readDecl", val |-> Load(mem, DeclValueRef(mem, decl), 1)]
    /\ UNCHANGED <<mem, fault, wrap, writes, getterVars, instVars, moduleVars,
                   declVars, glob, seen>>

\* x.f = v
WriteDecl(v) ==
    /\ IsByteField(decl)
    /\ writes < MaxWrites
    /\ Readable(DeclValueRef(mem, decl), 1)
    /\ mem' = Store(mem, DeclValueRef(mem, decl), 1, v)
    /\ writes' = writes + 1
    /\ last' = [op |-> "writeDecl", v |-> v]
    /\ UNCHANGED <<fault, wrap, getterVars, instVars, moduleVars, declVars, glob, seen>>

NextDecls ==
    \/ Define
    \/ ReadDecl
    \/ \E v \in ValuesOf("u8") : WriteDecl(v)

SpecDecls == InitDecls /\ [][NextDecls]_vars

---------------------------------------------------------------------------
(* Specification SpecFresh: the fields of a wrapper are read and its       *)
(* function wrappers invoked again and again, while the wrapped program    *)
(* stores into the memory they are located by and the wrapper is assigned  *)
(* another one.                                                            *)

FreshFuncs == {"give_goodie", "fetch"}

FreshFields == {"age", "link", "glob"}

NewAge == 9

\* What the wrapped program stores: a new slot 1 in the first table, another
\* table in the first object's vtable pointer, a new age and a new target of
\* its pointer member, and a new global datum.
ProgramStores ==
    {[at |-> Tab1 + PtrSize, n |-> PtrSize, v |-> PatchValue],
     [at |-> ObjA, n |-> PtrSize, v |-> Tab2],
     [at |-> ObjA + AgeOffs, n |-> 1, v |-> NewAge],
     [at |-> ObjA + RaceOffs, n |-> PtrSize, v |-> ObjB + AgeOffs],
     [at |-> DataA, n |-> 1, v |-> NewAge]}

NothingSeen == [member |-> "none"]

InitFresh ==
    /\ mem = Mem0
    /\ fault = FALSE
    /\ last = [op |-> "init"]
    /\ wrap = [w \in Wrappers |-> NoWrapper]
    /\ writes = 0
    /\ seen = NothingSeen
    /\ NoGetter
    /\ NoInstances
    /\ NoModules
    /\ NoDecls
    /\ NoGlobal

\* w.fn(args...), remembering the invocation before it
Invoke(w, fn, args) ==
    /\ ~fault
    /\ wrap[w].live
    /\ \/ /\ RawPtrReadable(wrap, mem, MemberFuncDecl(w, fn))
          /\ last' = [op |-> "invoke", w |-> w, member |-> fn, before |-> seen,
                      res |-> MemberFunctionImplCall(wrap, mem,
                                  MemberFuncDecl(w, fn), args).target]
          /\ seen' = [w |-> w, member |-> fn,
                      res |-> MemberFunctionImplCall(wrap, mem,
                                  MemberFuncDecl(w, fn), args).target]
          /\ UNCHANGED <<mem, fault, wrap, writes>>
       \/ /\ ~RawPtrReadable(wrap, mem, MemberFuncDecl(w, fn))
          /\ Fault
          /\ UNCHANGED seen
    /\ UNCHANGED <<getterVars, instVars, declVars, glob, moduleVars>>

\* T v = w.f, remembering the read before it
Observe(w, f) ==
    /\ ~fault
    /\ wrap[w].live
    /\ \/ /\ FieldAccessible(wrap, mem, w, f)
          /\ last' = [op |-> "observe", w |-> w, member |-> f, before |-> seen,
                      res |-> FieldValue(wrap, mem, w, f)]
          /\ seen' = [w |-> w, member |-> f, res |-> FieldValue(wrap, mem, w, f)]
          /\ UNCHANGED <<mem, fault, wrap, writes>>
       \/ /\ ~FieldAccessible(wrap, mem, w, f)
          /\ Fault
          /\ UNCHANGED seen
    /\ UNCHANGED <<getterVars, instVars, declVars, glob, moduleVars>>

\* The wrapped program stores into its own memory.
ProgramStore(st) ==
    /\ ~fault
    /\ writes < MaxWrites
    /\ mem' = Store(mem, st.at, st.n, st.v)
    /\ writes' = writes + 1
    /\ last' = [op |-> "store", at |-> st.at]
    /\ UNCHANGED <<fault, wrap, getterVars, instVars, declVars, glob, moduleVars, seen>>

\* The wrapper under observation wraps the first object or, wrongly, a
\* function table; the other one wraps the second object.
FreshAddrs == {ObjA, Tab1}

NextFresh ==
    \/ \E p \in FreshAddrs : Cast("dog", p, FALSE)
    \/ Cast("dog2", ObjB, FALSE)
    \/ AssignWrapper("dog", "dog2")
    \/ \E fn \in FreshFuncs : \E args \in ArgLists(Arity[fn]) : Invoke("dog", fn, args)
    \/ \E f \in FreshFields : Observe("dog", f)
    \/ \E st \in ProgramStores : ProgramStore(st)

SpecFresh == InitFresh /\ [][NextFresh]_vars

---------------------------------------------------------------------------
(* Specification SpecWeak: a wrapper declares, like the README's Dog, a    *)
(* sized wrapper embedded by value and a pointer to one; both fields are   *)
(* rewritten to weak wrappers, which are promoted with toStrong().         *)

WeakFields == {"name", "race"}

NameOffs == PtrSize

\* Field<CustomString> name{this, NameOffs}: a FieldImpl for classes over
\* WeakWrapper<CustomString>; Field<CustomString*> race{this, RaceOffs}: a
\* FieldImpl for pointers over WeakWrapper<CustomString>*.
WeakFieldDecl(this, f) ==
    CASE f = "name" -> [ptr |-> FALSE, base |-> FieldBase(this, Offs(NameOffs))]
      [] f = "race" -> [ptr |-> TRUE, base |-> FieldBase(this, Offs(RaceOffs))]

\* A faulty operator-> that takes the field's own location for a pointer
\* field too.
FieldArrowInPlace(W, m, d) == rawPtr(W, m, d.base)

\* field.operator->(): &get() for a class field, the pointer held by the field
\* for a pointer field.
FieldArrow(W, m, d) ==
    IF d.ptr
    THEN Load(m, rawPtr(W, m, d.base), PtrSize)
    ELSE rawPtr(W, m, d.base)

\* The loads of operator-> stay inside mapped memory.
FieldArrowReadable(W, m, d) == d.ptr => Readable(rawPtr(W, m, d.base), PtrSize)

WeakParents == {NullPtr, ObjA, ObjB}

InitWeak ==
    /\ mem = Mem0
    /\ fault = FALSE
    /\ last = [op |-> "init"]
    /\ wrap = [w \in {"dog", "str"} |-> NoWrapper]
    /\ writes = 0
    /\ NoGetter
    /\ NoInstances
    /\ NoModules
    /\ NoDecls
    /\ NoGlobal
    /\ NoSeen

\* auto w = parent.f->toStrong()
Promote(w, parent, f) ==
    /\ ~fault
    /\ wrap[parent].live
    /\ \/ /\ FieldArrowReadable(wrap, mem, WeakFieldDecl(parent, f))
          /\ wrap' = [wrap EXCEPT ![w] =
                         toStrong(w, FieldArrow(wrap, mem, WeakFieldDecl(parent, f)))]
          /\ last' = [op |-> "promote", w |-> w, parent |-> parent, f |-> f]
          /\ UNCHANGED <<mem, fault, writes>>
       \/ /\ ~FieldArrowReadable(wrap, mem, WeakFieldDecl(parent, f))
          /\ Fault
    /\ UNCHANGED <<getterVars, instVars, declVars, glob, moduleVars, seen>>

NextWeak ==
    \/ \E p \in WeakParents : Cast("dog", p, FALSE)
    \/ \E f \in WeakFields : Promote("str", "dog", f)
    \/ \E o \in Objects, p \in RefTargets : Repoint(o, p)

SpecWeak == InitWeak /\ [][NextWeak]_vars

---------------------------------------------------------------------------
(* Specification SpecOps: a wrapper class declaring one Field<T> of an     *)
(* arithmetic type T is defined, and expressions applying an operator to   *)
(* the field are compiled: an operator is forwarded by the field or not.   *)

ArithTypes == {"bool", "int8_t", "uint8_t", "int32_t", "uint32_t", "float", "double"}

\* std::is_floating_point<T>::value
is_floating_point(T) == T \in {"float", "double"}

\* The unsigned integer types, bool not among them.
is_unsigned_integer(T) == T \in {"uint8_t", "uint32_t"}

\* std::is_unsigned<T>::value: T(0) < T(-1), which holds for bool.
is_unsigned(T) == T \in {"bool", "uint8_t", "uint32_t"}

\* std::is_same<T, bool>::value
is_same_bool(T) == T = "bool"

\* The operator flags that FieldImpl names, as sets of single-operator flags.
ARITHMETIC ==
    {"ASSIGN", "ADD", "SUBTRACT", "MULTIPLY", "DIVIDE", "MODULO",
     "UNARY_PLUS", "UNARY_MINUS", "INCREMENT", "DECREMENT"}

BITWISE ==
    {"BITWISE_OR", "BITWISE_AND", "BITWISE_XOR", "BITWISE_NOT",
     "BITWISE_LEFT_SHIFT", "BITWISE_RIGHT_SHIFT"}

COMPARE ==
    {"EQ_COMPARE", "NEQ_COMPARE", "GT_COMPARE", "LT_COMPARE",
     "GTE_COMPARE", "LTE_COMPARE"}

COMMA == {"COMMA"}

\* The flags FieldImpl gives to fields of pointers and arrays only.
MemberFlags == {"ARRAY_SUBSCRIPT", "INDIRECTION", "STRUCT_DEREFERENCE"}

Operators == ARITHMETIC \cup BITWISE \cup COMPARE \cup COMMA \cup MemberFlags

\* cond ? flags : 0
FlagsIf(cond, flags) == IF cond THEN flags ELSE {}

\* A faulty flag computation that takes bool for a signed type.
ArithmeticFlagsBoolSigned(T) ==
    (((ARITHMETIC \cup BITWISE \cup COMMA \cup COMPARE)
        \ FlagsIf(is_floating_point(T), {"BITWISE_NOT"}))
        \ FlagsIf(is_unsigned_integer(T), {"UNARY_MINUS"}))
        \ FlagsIf(is_same_bool(T), {"INCREMENT", "DECREMENT", "BITWISE_NOT"})

\* The flags FieldImpl<T> for arithmetic T passes to ForwardByFlags:
\* (ARITHMETIC | BITWISE | COMMA | COMPARE) & ~(...) & ~(...) & ~(...)
ArithmeticFlags(T) ==
    (((ARITHMETIC \cup BITWISE \cup COMMA \cup COMPARE)
        \ FlagsIf(is_floating_point(T), {"BITWISE_NOT"}))
        \ FlagsIf(is_unsigned(T), {"UNARY_MINUS"}))
        \ FlagsIf(is_same_bool(T), {"INCREMENT", "DECREMENT", "BITWISE_NOT"})

\* operators::ForwardByFlags<FieldImpl<T>, T, flags>: the field has a
\* forwarding operator for op when its flag is set.
ForwardByFlags(flags, op) == op \in flags

InitOps ==
    /\ mem = Mem0
    /\ fault = FALSE
    /\ last \in {[op |-> "source", type |-> T] : T \in ArithTypes}
    /\ decl = NoField
    /\ writes = 0
    /\ NoGetter
    /\ NoWrappers
    /\ NoInstances
    /\ NoModules
    /\ NoGlobal
    /\ NoSeen

\* The translation unit holding the wrapper class with Field<T> f is compiled.
DefineArithmetic ==
    /\ last.op = "source"
    /\ decl' = [ok |-> TRUE, type |-> last.type, flags |-> ArithmeticFlags(last.type)]
    /\ last' = [op |-> "define", type |-> last.type]
    /\ UNCHANGED <<mem, fault, wrap, writes, getterVars, instVars, moduleVars, glob, seen>>

\* An expression applying operator op to the field is compiled.
UseOperator(op) ==
    /\ decl.ok
    /\ last' = [op |-> "use", operator |-> op,
                forwarded |-> ForwardByFlags(decl.flags, op)]
    /\ UNCHANGED <<mem, fault, wrap, writes, getterVars, instVars, moduleVars,
                   declVars, glob, seen>>

NextOps ==
    \/ DefineArithmetic
    \/ \E op \in Operators : UseOperator(op)

SpecOps == InitOps /\ [][NextOps]_vars

---------------------------------------------------------------------------
(* Specification SpecBind: a wrapper is created for a null, an invalid or  *)
(* a valid address, which constructs the fields and function wrappers it   *)
(* declares; afterwards they are read, written and invoked.                *)

\* The addresses PtrGetter g loads from when applied to raw in memory m: the
\* vtable pointer and, once that is loaded, the slot.
GetterLoads(g, m, raw) ==
    IF g.kind = "vft"
    THEN Span(VfTablePtrAddr(g, raw), PtrSize)
         \cup (IF Readable(VfTablePtrAddr(g, raw), PtrSize)
               THEN Span(VfTableSlotAddr(g, m, raw), PtrSize)
               ELSE {})
    ELSE {}

\* A faulty constructor that resolves the member's address on creation.
FieldBaseLoadsEager(W, m, b) ==
    GetterLoads(b.getter, m, IF b.parent \in DOMAIN W THEN W[b.parent].raw ELSE NullPtr)

\* The addresses of target memory that FieldBase's constructor, and with it
\* the constructors of Field, Function, MemberFunction and VirtualFunction,
\* load from or store to: its member initialisers copy the parent pointer and
\* the getter, and its body is empty.
FieldBaseLoads(W, m, b) == {}

\* The members constructed along with wrapper variable `this`, and with the
\* program's free function wrappers.
MembersOf(this) ==
    {FieldBase(this, FieldDecl[f].getter) : f \in DeclaredFields(this)}
    \cup {MemberFuncDecl(this, fn) : fn \in MemberFuncs}
    \cup {FreeFuncDecl(fn) : fn \in FreeFuncs}

BindAddrs == {NullPtr, AddrSpace - 1, ObjA}

InitBind ==
    /\ mem = Mem0
    /\ fault = FALSE
    /\ last = [op |-> "init"]
    /\ wrap = [w \in Wrappers |-> NoWrapper]
    /\ writes = 0
    /\ NoGetter
    /\ NoInstances
    /\ NoModules
    /\ NoDecls
    /\ NoGlobal
    /\ NoSeen

\* auto w = wrapper_cast<Dog>(p): the wrapper and all its members are
\* constructed; a load or store outside mapped memory would end the process.
Bind(w, p) ==
    /\ ~fault
    /\ ~wrap[w].live
    /\ LET W == [wrap EXCEPT ![w] = wrapper_cast(w, p)]
           touched == UNION {FieldBaseLoads(W, mem, b) : b \in MembersOf(w)}
       IN  /\ wrap' = IF touched \subseteq Mapped THEN W ELSE wrap
           /\ fault' = ~(touched \subseteq Mapped)
           /\ last' = [op |-> "bind", w |-> w, p |-> p, touched |-> touched]
    /\ UNCHANGED <<mem, writes, getterVars, instVars, declVars, glob, moduleVars, seen>>

BindWrites == {"age", "glob"}

NextBind ==
    \/ \E p \in BindAddrs : Bind("dog", p)
    \/ \E f \in FNames : ReadField("dog", f)
    \/ \E f \in BindWrites : \E v \in ValuesOf(FieldDecl[f].type) : WriteField("dog", f, v)
    \/ \E fn \in MemberFuncs : \E args \in ArgLists(Arity[fn]) : CallMember("dog", fn, args)
    \/ \E fn \in FreeFuncs : \E args \in ArgLists(Arity[fn]) : CallFree(fn, args)

SpecBind == InitBind /\ [][NextBind]_vars

---------------------------------------------------------------------------
(* Specification SpecBound: wrappers are created by wrapper_cast, copied   *)
(* and assigned to one another in any order, and their fields are read and *)
(* written in between.                                                     *)

BoundFields == {"age", "race", "link"}

NextBound ==
    \/ \E w \in Wrappers, p \in Objects, viaUint \in BOOLEAN : Cast(w, p, viaUint)
    \/ \E w, src \in Wrappers : CopyConstruct(w, src)
    \/ \E w, src \in Wrappers : AssignWrapper(w, src)
    \/ \E w \in Wrappers, f \in BoundFields : ReadField(w, f)
    \/ \E w \in Wrappers : \E v \in ValuesOf("u8") : WriteField(w, "age", v)

SpecBound == InitCalls /\ [][NextBound]_vars

---------------------------------------------------------------------------
(* Specification SpecOwned: values of WrapperT::Instantiable are created   *)
(* and torn down, and in between are assigned other wrappers through the   *)
(* operator= of their wrapper base type.                                   *)

\* static_cast<WrapperT&>(i) = wrapper_cast<WrapperT>(p): InstantiableWrapper
\* is NonCopyable, but the operator= that the REMODEL_WRAPPER macro declares
\* in WrapperT is public and reachable through the base.
AssignInstance(i, p) ==
    /\ inst[i].st = "live"
    /\ inst' = [inst EXCEPT ![i].w = AssignWrapperTo(inst[i].w, wrapper_cast("tmp", p))]
    /\ last' = [op |-> "assignInstance", i |-> i, p |-> p]
    /\ UNCHANGED <<mem, fault, cls, hooks, wrap, writes, getterVars, moduleVars,
                   declVars, glob, seen>>

NextOwned ==
    \/ \E i \in InstIds, a, b \in ArgVals : Create(i, a, b)
    \/ \E i \in InstIds, p \in Objects : AssignInstance(i, p)
    \/ \E i \in InstIds : Destroy(i)

SpecOwned == InitInstances /\ [][NextOwned]_vars

---------------------------------------------------------------------------
(* Properties of wrappers and fields, under SpecFields.                    *)

C3_RoundTripAnyGetter ==
    (last.op = "write" /\ ~FieldDecl[last.f].ref) =>
        /\ FieldAccessible(wrap, mem, last.w, last.f)
        /\ FieldValue(wrap, mem, last.w, last.f) = last.v

\* The bytes a write through the field stores do not overlap the words its
\* PtrGetter loads: always so for OffsGetter and AbsGetter, which load none.
GetterStable(W, m, w, f) ==
    W[w].fields[f].getter.kind = "vft" =>
        Span(valueRef(W, m, w, f), FieldSize(f))
          \cap (Span(VfTablePtrAddr(W[w].fields[f].getter, W[w].raw), PtrSize)
                \cup Span(VfTableSlotAddr(W[w].fields[f].getter, m, W[w].raw), PtrSize))
          = {}

\* C3, amended: writing v through a non-reference field whose PtrGetter loads
\* none of the bytes the write stores, and then reading the field, yields v.
C3_RoundTrip ==
    [][(last'.op = "write" /\ ~FieldDecl[last'.f].ref
            /\ GetterStable(wrap, mem, last'.w, last'.f)) =>
        /\ FieldAccessible(wrap', mem', last'.w, last'.f)
        /\ FieldValue(wrap', mem', last'.w, last'.f) = last'.v]_vars

\* A write through a field located by a VfTableGetter round-trips: the slot
\* points into another object, away from the words the getter loads.
C3_Witness ==
    /\ last.op = "write"
    /\ last.f = "entry"
    /\ addressOfObj(wrap[last.w]) = ObjB
    /\ valueRef(wrap, mem, last.w, "entry") = ObjA + 1
    /\ FieldValue(wrap, mem, last.w, "entry") = last.v

\* C4: a write through a non-reference field bound at offset d of a wrapper
\* at p changes only the sizeof(T) bytes starting at p + d; writing 5 to the
\* field at offset 124 leaves the byte at offset 125 and reads back as 5.
C4_WriteFrame ==
    [][(last'.op = "write" /\ ~FieldDecl[last'.f].ref
            /\ wrap[last'.w].fields[last'.f].getter.kind = "offs") =>
        /\ \A x \in Mapped \
                 Span(wrap[last'.w].raw + wrap[last'.w].fields[last'.f].getter.offs,
                      FieldSize(last'.f)) :
              mem'[x] = mem[x]
        /\ (last'.f = "age" /\ last'.v = 5) =>
              /\ mem'[WrapAddr(wrap[last'.w].raw + HatesOffs)]
                   = mem[WrapAddr(wrap[last'.w].raw + HatesOffs)]
              /\ FieldValue(wrap', mem', last'.w, "age") = 5]_vars

\* 5 was written to the field at offset 124 of the object at ObjA; the byte at
\* offset 125 still holds its initial 1.
C4_Witness ==
    /\ last.op = "write"
    /\ last.f = "age" /\ last.v = 5
    /\ addressOfObj(wrap[last.w]) = ObjA
    /\ mem[ObjA + AgeOffs] = 5
    /\ mem[ObjA + HatesOffs] = 1

\* C5: wrapper_cast<T>(p).addressOfObj() = p for both overloads, and the cast
\* changes no memory.
C5_WrapperCast ==
    [][last'.op = "cast" =>
        /\ wrap'[last'.w].live
        /\ addressOfObj(wrap'[last'.w]) = last'.p
        /\ mem' = mem
        /\ fault' = fault]_vars

\* The uintptr_t overload produced a wrapper for the function table's address.
C5_Witness ==
    /\ last.op = "cast"
    /\ last.viaUint
    /\ last.p = Tab1
    /\ addressOfObj(wrap[last.w]) = Tab1

\* C6: toStrong() of the weak wrapper at address self yields a wrapper whose
\* addressOfObj() is self, and changes no memory.
C6_ToStrong ==
    [][last'.op = "toStrong" =>
        /\ wrap'[last'.w].live
        /\ addressOfObj(wrap'[last'.w]) = last'.self
        /\ mem' = mem
        /\ fault' = fault]_vars

\* The weak wrapper embedded at offset RaceOffs of the first object was
\* promoted; its first word holds another address.
C6_Witness ==
    /\ last.op = "toStrong"
    /\ last.self = ObjA + RaceOffs
    /\ addressOfObj(wrap[last.w]) = ObjA + RaceOffs
    /\ Load(mem, ObjA + RaceOffs, PtrSize) # ObjA + RaceOffs

---------------------------------------------------------------------------
(* Properties of instantiable wrappers, under SpecInstances.               *)

\* The entries of the hook log for hook h of instance i.
HookCalls(h, i) == SelectSeq(hooks, LAMBDA e : e.hook = h /\ e.inst = i)

\* The positions of the hook log holding hook h of instance i.
HookIndices(h, i) ==
    {k \in 1..Len(hooks) : hooks[k].hook = h /\ hooks[k].inst = i}

\* C7: creating an Instantiable value with arguments (a, b) invokes the
\* wrapper type's construction hook exactly once, on this value and with
\* exactly (a, b), if the type declares such a hook, and invokes no hook if it
\* declares none.
C7_ConstructHook ==
    last.op = "create" =>
        /\ inst[last.i].st = "live"
        /\ addressOfObj(inst[last.i].w) = BufAddr(last.i)
        /\ mem = Mem0
        /\ HookCalls("construct", last.i) =
              IF cls.nCtor > 0
              THEN <<[hook |-> "construct", inst |-> last.i,
                      this |-> BufAddr(last.i), args |-> last.args]>>
              ELSE <<>>

\* What the code does for C7: the hook runs, once and with exactly (a, b),
\* precisely when HasCustomCtor detects it.
C7_ConstructHookDetected ==
    last.op = "create" =>
        /\ inst[last.i].st = "live"
        /\ addressOfObj(inst[last.i].w) = BufAddr(last.i)
        /\ mem = Mem0
        /\ HookCalls("construct", last.i) =
              IF HasCustomCtor(cls)
              THEN <<[hook |-> "construct", inst |-> last.i,
                      this |-> BufAddr(last.i), args |-> last.args]>>
              ELSE <<>>

\* C8: if the wrapper type declares a destruction hook, the hook is invoked
\* exactly once when the value is torn down, after its construction has
\* completed and never before; if it declares none, teardown invokes no hook.
C8_DestructHook ==
    \A i \in InstIds :
        /\ Len(HookCalls("destruct", i)) =
              IF cls.nDtor > 0 /\ inst[i].st = "dead" THEN 1 ELSE 0
        /\ \A d \in HookIndices("destruct", i), c \in HookIndices("construct", i) :
              c < d
        /\ \A d \in HookIndices("destruct", i) : hooks[d].this = BufAddr(i)

\* What the code does for C8: the hook runs once at teardown precisely when
\* HasCustomDtor detects it.
C8_DestructHookDetected ==
    \A i \in InstIds :
        /\ Len(HookCalls("destruct", i)) =
              IF HasCustomDtor(cls) /\ inst[i].st = "dead" THEN 1 ELSE 0
        /\ \A d \in HookIndices("destruct", i), c \in HookIndices("construct", i) :
              c < d
        /\ \A d \in HookIndices("destruct", i) : hooks[d].this = BufAddr(i)

---------------------------------------------------------------------------
(* Properties of the module root, under SpecRoots.                         *)

\* C9: getModule(name) queries the resolution service exactly once, for
\* name; if the service reports no module the result is empty and no wrapper
\* is created; if it reports base address B the result holds a Module wrapper
\* whose addressOfObj is B.
C9_GetModule ==
    [][last'.op = "getModule" =>
          LET name == last'.name
              B    == loaded[name]
          IN  /\ svcLog' = Append(svcLog, name)
              /\ wrap' = wrap
              /\ loaded' = loaded
              /\ IF B = NullPtr
                 THEN modRes' = [present |-> FALSE]
                 ELSE /\ modRes'.present
                      /\ modRes'.value.live
                      /\ addressOfObj(modRes'.value) = B]_vars

\* Both outcomes have happened: a lookup that found its module after one
\* that found none.
C9_Witness ==
    /\ last.op = "getModule"
    /\ Len(svcLog) = 2
    /\ loaded[svcLog[1]] = NullPtr
    /\ loaded[svcLog[2]] # NullPtr
    /\ modRes.present
    /\ addressOfObj(modRes.value) = loaded[last.name]

---------------------------------------------------------------------------
(* Properties of wrapper copies and function wrappers, under SpecCalls.    *)

\* C12: copy-constructing a wrapper from another and assigning one wrapper to
\* another set the destination's address to the source's address and change
\* no byte of memory; afterwards both addressOfObj() are equal and the source
\* (like every other wrapper) is unchanged.
C12_WrapperCopy ==
    [][last'.op \in {"copy", "assign"} =>
          LET dst == last'.dst
              src == last'.src
          IN  /\ mem' = mem
              /\ wrap'[dst].live
              /\ addressOfObj(wrap'[dst]) = addressOfObj(wrap[src])
              /\ addressOfObj(wrap'[dst]) = addressOfObj(wrap'[src])
              /\ \A o \in Wrappers \ {dst} : wrap'[o] = wrap[o]
              /\ wrap'[dst].fields = ClassWrapper(dst, NullPtr).fields]_vars

\* A wrapper of ObjA was assigned another wrapper, one of ObjB.
C12_Witness ==
    /\ last.op = "assign"
    /\ last.dst # last.src
    /\ last.old = ObjA
    /\ addressOfObj(wrap[last.dst]) = ObjB
    /\ addressOfObj(wrap[last.src]) = ObjB
    /\ mem = Mem0

\* C13: invoking a member-function wrapper calls the code at the address
\* its PtrGetter returns for the parent's object address, with the parent's
\* addressOfObj() as first argument followed by the given arguments in order;
\* both uses of the parent address are the address the parent has at the call.
C13_MemberCall ==
    last.op = "call" =>
        LET parent == addressOfObj(wrap[last.w])
            g      == MemberFuncDecl(last.w, last.fn).getter
        IN  /\ last.call.target = PtrGetter(g, mem, parent)
            /\ Len(last.call.args) = Arity[last.fn] + 1
            /\ last.call.args[1] = parent
            /\ \A k \in 1..Arity[last.fn] : last.call.args[k + 1] = last.given[k]

\* speak(2, 1) was called through a wrapper of ObjB.
C13_Witness ==
    /\ last.op = "call"
    /\ last.fn = "speak"
    /\ last.given = <<2, 1>>
    /\ last.call.args = <<ObjB, 2, 1>>
    /\ last.call.target = SlotValue(Tab2, 2)

\* C14: invoking a free-function wrapper calls the code at the address its
\* PtrGetter returns for a null base, with exactly the given arguments and no
\* implicit one, whatever the addresses of the wrappers that exist.
C14_FreeCall ==
    last.op = "callfree" =>
        /\ last.call.target =
              PtrGetter(FreeFuncDecl(last.fn).getter, mem, NullPtr)
        /\ last.call.target =
              (IF last.fn = "bark_all" THEN FreeAddr ELSE SlotValue(Tab1, 1))
        /\ last.call.args = last.given

\* bark_all(1, 2) was called while a wrapper of ObjA existed.
C14_Witness ==
    /\ last.op = "callfree"
    /\ last.fn = "bark_all"
    /\ last.call = [target |-> FreeAddr, args |-> <<1, 2>>]
    /\ \E w \in Wrappers : wrap[w].live /\ addressOfObj(wrap[w]) = ObjA

\* The index and vtable offset each virtual function is declared with.
DeclaredSlot(fn) ==
    CASE fn = "calculate_fluffiness" -> [idx |-> 0, vo |-> 0]
      [] fn = "give_goodie" -> [idx |-> 1, vo |-> 0]
      [] fn = "speak" -> [idx |-> 2, vo |-> PtrSize]

\* C15: a VirtualFunction built with (parent, index, vtableOffset) is a member
\* function whose PtrGetter is VfTableGetter(index, vtableOffset): a call goes
\* to the code whose address is slot index of the table that the word at
\* parent.addressOfObj() + vtableOffset points to, with parent.addressOfObj()
\* as first argument; an omitted vtableOffset is 0.
C15_VirtualCall ==
    \A fn \in {"calculate_fluffiness", "give_goodie", "speak"} :
        /\ \A w \in Wrappers :
              MemberFuncDecl(w, fn) =
                  MemberFunction(w, Vft(DeclaredSlot(fn).idx, DeclaredSlot(fn).vo))
        /\ (last.op = "call" /\ last.fn = fn) =>
              LET parent == addressOfObj(wrap[last.w])
              IN  /\ \E t \in Tables :
                        /\ WordAt(mem, parent + DeclaredSlot(fn).vo, t)
                        /\ WordAt(mem, t + DeclaredSlot(fn).idx * PtrSize,
                                  last.call.target)
                  /\ last.call.args = <<parent>> \o last.given

\* give_goodie(2) was called on ObjA after ObjA's vtable pointer had been set
\* to the second table.
C15_Witness ==
    /\ last.op = "call"
    /\ last.fn = "give_goodie"
    /\ WordAt(mem, ObjA, Tab2)
    /\ last.call = [target |-> SlotValue(Tab2, 1), args |-> <<ObjA, 2>>]

---------------------------------------------------------------------------
(* Properties of the global root, under SpecRoots.                         *)

\* C19: Global::instance() returns the same wrapper on every call; that
\* wrapper is constructed at most once and not before the first call, is never
\* torn down, and its addressOfObj() is null in every reachable state.
C19_GlobalSingleton ==
    /\ last.op \in {"instance", "assignGlobal"} => last.ret = GlobalThiz
    /\ glob.ctors <= 1
    /\ glob.constructed <=> glob.calls > 0
    /\ glob.constructed => glob.w.live /\ addressOfObj(glob.w) = NullPtr

\* What the code does for C19: instance() returns one wrapper, constructed
\* on the first call with a null address and never torn down; only an
\* assignment to the singleton changes its address.
C19_GlobalSingletonLazy ==
    [][/\ glob'.ctors <= 1
       /\ glob'.constructed <=> glob'.calls > 0
       /\ glob.constructed => glob'.constructed /\ glob'.w.live
       /\ last'.op = "instance" =>
             /\ last'.ret = GlobalThiz
             /\ IF glob.constructed THEN glob'.w = glob.w
                ELSE addressOfObj(glob'.w) = NullPtr
       /\ last'.op \notin {"instance", "assignGlobal"} => glob' = glob]_vars

---------------------------------------------------------------------------
(* Properties of field declarations, under SpecDecls.                      *)

\* C16: a Field whose type is an rvalue reference is rejected at definition
\* time for every T: no such field is ever bound, and no read or write goes
\* through one.
C16_RvalueRefRejected ==
    /\ (last.op = "define" /\ Outer(last.type) = "rref") => ~decl.ok
    /\ decl.ok => Outer(decl.type) # "rref"
    /\ last.op \in {"readDecl", "writeDecl"} => Outer(decl.type) # "rref"

\* What the code does for C16: the reference is removed before FieldImpl is
\* selected, so Field<T&&> is accepted or rejected exactly as Field<T&> is and
\* is accessed with the extra dereference of a reference field.
C16_RvalueRefAsLvalueRef ==
    (last.op = "define" /\ Outer(last.type) = "rref") =>
        LET asLref == Field(Ty(last.type.base,
                               SubSeq(last.type.quals, 1, Len(last.type.quals) - 1)
                                   \o <<Q("lref", 0)>>))
        IN  /\ decl.ok = asLref.ok
            /\ decl.ok => /\ decl.RewrittenT = asLref.RewrittenT
                          /\ decl.kDoExtraDref
            /\ ~decl.ok => decl.diag = asLref.diag

\* The declared type is W[N] for a wrapper type W.
IsArrayOfWrapper(T) ==
    /\ Len(T.quals) = 1
    /\ T.quals[1].q = "arr"
    /\ IsWrapperType(T.base)

\* C17 as stated: a field of type W[N], W a plain or sized wrapper, is
\* rejected at definition time for every N.
C17_ArrayOfWrapperRejected ==
    (last.op = "define" /\ IsArrayOfWrapper(last.type)) => ~decl.ok

\* C17: a field of type W[N] is rejected at definition time when W is a plain
\* wrapper, and accepted as an array of N weak wrappers of W when W is a sized
\* wrapper.
C17_ArrayOfWrapper ==
    (last.op = "define" /\ IsArrayOfWrapper(last.type)) =>
        IF last.type.base = "Plain"
        THEN /\ ~decl.ok
             /\ decl.diag = "using wrapped types in fields requires usage of AdvancedClassWrapper as base"
        ELSE /\ decl.ok
             /\ decl.RewrittenT = Ty(WeakWrapper(last.type.base), last.type.quals)
             /\ ~decl.kDoExtraDref

\* Field<Adv[MaxN]> was defined and accepted.
C17_Witness ==
    /\ last.op = "define"
    /\ last.type = Ty("Adv", <<Q("arr", MaxN)>>)
    /\ decl.ok
    /\ decl.RewrittenT = Ty("WeakWrapper<Adv>", <<Q("arr", MaxN)>>)

\* C18 as stated: a plain wrapper type is accepted in every field type that
\* neither embeds it by value nor places it in an array, a pointer to it in
\* particular.
C18_PlainPointerAccepted ==
    (/\ last.op = "define"
     /\ last.type.base = "Plain"
     /\ Len(last.type.quals) > 0
     /\ \A k \in 1..Len(last.type.quals) :
           last.type.quals[k].q \notin {"arr", "arrU"}) => decl.ok

\* C18: a plain wrapper type is rejected as the base type of every field
\* type, pointers and references to it included; a sized wrapper is accepted
\* behind a pointer or a reference.
C18_PlainWrapperRejected ==
    last.op = "define" =>
        /\ last.type.base = "Plain" =>
              /\ ~decl.ok
              /\ decl.diag = "using wrapped types in fields requires usage of AdvancedClassWrapper as base"
        /\ (last.type.base = "Adv" /\ last.type.quals \in
                {<<Q("ptr", 0)>>, <<Q("lref", 0)>>, <<Q("ptr", 0), Q("lref", 0)>>}) =>
              /\ decl.ok
              /\ decl.RewrittenT.base = WeakWrapper("Adv")

\* Field<Plain*> was defined and rejected.
C18_Witness ==
    /\ last.op = "define"
    /\ last.type = Ty("Plain", <<Q("ptr", 0)>>)
    /\ ~decl.ok

---------------------------------------------------------------------------
(* Properties of reference fields, under SpecRefs.                         *)

\* The n bytes at a and the m bytes at b share no address.
Disjoint(a, n, b, m) == Span(a, n) \cap Span(b, m) = {}

\* What a read or write of field f of wrapper w did, given the location L the
\* field's PtrGetter returns and the address A the access must have used.
AccessedAt(L, A, f) ==
    /\ last'.op = "read" => /\ last'.val = Load(mem, A, FieldSize(f))
                            /\ mem' = mem
    /\ last'.op = "write" => Load(mem', A, FieldSize(f)) = last'.v
    /\ FieldAddressOfObj(wrap, mem, last'.w, f) = A

\* C20 as stated: a reference field at location L reads and writes the value
\* at the address stored in the word at L, a write leaves the word at L
\* unchanged, and its addressOfObj() is the stored address; a non-reference
\* field reads and writes L itself.
C20_ReferenceFieldAnyTarget ==
    [][last'.op \in {"read", "write"} =>
          LET f == last'.f
              L == rawPtr(wrap, mem, wrap[last'.w].fields[f])
          IN  IF FieldDecl[f].ref
              THEN /\ AccessedAt(L, Load(mem, L, PtrSize), f)
                   /\ Load(mem', L, PtrSize) = Load(mem, L, PtrSize)
              ELSE AccessedAt(L, L, f)]_vars

\* C20: as above, with the word at L unchanged by a write whenever the bytes
\* written do not overlap it.
C20_ReferenceField ==
    [][last'.op \in {"read", "write"} =>
          LET f == last'.f
              L == rawPtr(wrap, mem, wrap[last'.w].fields[f])
              A == Load(mem, L, PtrSize)
          IN  IF FieldDecl[f].ref
              THEN /\ AccessedAt(L, A, f)
                   /\ Disjoint(A, FieldSize(f), L, PtrSize) =>
                         Load(mem', L, PtrSize) = Load(mem, L, PtrSize)
              ELSE AccessedAt(L, L, f)]_vars

\* 5 was written through the reference field of the wrapper of ObjA: it is
\* in the datum the pointer refers to, and the pointer is as it was.
C20_Witness ==
    /\ last.op = "write"
    /\ last.f = "link"
    /\ last.v = 5
    /\ addressOfObj(wrap["dog"]) = ObjA
    /\ Load(mem, ObjA + RaceOffs, PtrSize) = DataA
    /\ Load(mem, DataA, 1) = 5
    /\ FieldAddressOfObj(wrap, mem, "dog", "link") = DataA

---------------------------------------------------------------------------
(* Properties of repeated accesses, under SpecFresh.                       *)

\* What the member of a wrapper of the object at p is in memory m, read off
\* the declarations: the code address a function wrapper calls, the value a
\* field holds.
MemberNow(m, p, member) ==
    CASE member = "give_goodie" ->
            Load(m, WrapAddr(Load(m, p, PtrSize) + PtrSize), PtrSize)
      [] member = "fetch" -> FetchAddr
      [] member = "age" -> Load(m, WrapAddr(p + AgeOffs), 1)
      [] member = "link" -> Load(m, Load(m, WrapAddr(p + RaceOffs), PtrSize), 1)
      [] member = "glob" -> Load(m, DataA, 1)

\* C21: every invocation and every read locates its target from the parent's
\* address and the memory at that moment: after a vtable slot or the vtable
\* pointer has changed, the next invocation calls the code at the new slot
\* value, and after the memory of a field has changed, the next read returns
\* the new value, whatever the access before it returned.
C21_NoCaching ==
    [][last'.op \in {"invoke", "observe"} =>
          LET now == MemberNow(mem, addressOfObj(wrap[last'.w]), last'.member)
          IN  /\ last'.res = now
              /\ (last'.before.member = last'.member /\ last'.before.res # now)
                    => last'.res # last'.before.res
              /\ wrap' = wrap
              /\ mem' = mem]_vars

\* give_goodie was invoked twice on the wrapper of the first object; between
\* the two, slot 1 of its table was patched, and the second call went to the
\* patched address.
C21_Witness ==
    /\ last.op = "invoke"
    /\ last.member = "give_goodie"
    /\ addressOfObj(wrap["dog"]) = ObjA
    /\ last.before = [w |-> "dog", member |-> "give_goodie", res |-> SlotValue(Tab1, 1)]
    /\ WordAt(mem, ObjA, Tab1)
    /\ last.res = PatchValue

---------------------------------------------------------------------------
(* Properties of weak-wrapper fields, under SpecWeak.                      *)

\* C22: for a sized wrapper embedded by value at offset d of a parent at p,
\* promoting the field's weak wrapper yields a wrapper whose addressOfObj()
\* is p + d; for a pointer field at offset d, dereferencing and promoting
\* yields a wrapper whose addressOfObj() is the pointer stored at p + d.
\* Neither changes memory nor the parent.
C22_FieldToStrong ==
    [][last'.op = "promote" =>
          LET p == addressOfObj(wrap[last'.parent])
          IN  /\ wrap'[last'.w].live
              /\ last'.f = "name" =>
                    addressOfObj(wrap'[last'.w]) = WrapAddr(p + NameOffs)
              /\ last'.f = "race" =>
                    WordAt(mem, WrapAddr(p + RaceOffs), addressOfObj(wrap'[last'.w]))
              /\ wrap'[last'.parent] = wrap[last'.parent]
              /\ mem' = mem]_vars

\* The pointer member of the first object had been repointed into the second
\* object; promoting through the pointer field gave a wrapper of that place.
C22_Witness ==
    /\ last.op = "promote"
    /\ last.f = "race"
    /\ addressOfObj(wrap["dog"]) = ObjA
    /\ addressOfObj(wrap["str"]) = ObjB + AgeOffs
    /\ Load(mem, ObjA + RaceOffs, PtrSize) = ObjB + AgeOffs

---------------------------------------------------------------------------
(* Properties of the forwarded operators, under SpecOps.                   *)

\* C23 as stated: the operators an arithmetic Field<T> forwards are the
\* arithmetic, bitwise and comparison operators without bitwise-not for a
\* floating-point T, without unary minus for an unsigned integer T, and
\* without increment, decrement and bitwise-not for bool; nothing else is
\* removed.
C23_OperatorSetAsStated ==
    decl.ok =>
        decl.flags =
            (ARITHMETIC \cup BITWISE \cup COMPARE)
              \ (CASE decl.type \in {"float", "double"} -> {"BITWISE_NOT"}
                   [] decl.type \in {"uint8_t", "uint32_t"} -> {"UNARY_MINUS"}
                   [] decl.type = "bool" -> {"INCREMENT", "DECREMENT", "BITWISE_NOT"}
                   [] OTHER -> {})

\* C23: the operators an arithmetic Field<T> forwards are the arithmetic,
\* bitwise and comparison operators and the comma operator, without
\* bitwise-not for a floating-point T, without unary minus for an unsigned
\* integer T, and without unary minus, increment, decrement and bitwise-not
\* for bool; nothing else is removed, and an operator is usable through the
\* field exactly if it is in that set.
C23_OperatorSet ==
    decl.ok =>
        LET removed ==
              CASE decl.type \in {"float", "double"} -> {"BITWISE_NOT"}
                [] decl.type \in {"uint8_t", "uint32_t"} -> {"UNARY_MINUS"}
                [] decl.type = "bool" ->
                      {"UNARY_MINUS", "INCREMENT", "DECREMENT", "BITWISE_NOT"}
                [] OTHER -> {}
        IN  /\ decl.flags = (ARITHMETIC \cup BITWISE \cup COMPARE \cup COMMA) \ removed
            /\ last.op = "use" => (last.forwarded <=> last.operator \in decl.flags)

\* Unary minus was applied to a Field<bool>: the field does not forward it.
C23_Witness ==
    /\ decl.ok
    /\ decl.type = "bool"
    /\ last.op = "use"
    /\ last.operator = "UNARY_MINUS"
    /\ ~last.forwarded

---------------------------------------------------------------------------
(* Purity of the PtrGetters, under SpecGetters.                            *)

\* A memory that differs from the initial one in every byte that is not zero.
ZeroMem == [x \in Mapped |-> 0]

\* C24: applying a PtrGetter changes neither memory nor the getter's own
\* parameters, and returns what every earlier application to the same base
\* on the same memory returned; OffsGetter and AbsGetter load nothing, so
\* they return the same address on any memory and never fault, even on a
\* base with no memory behind it.
C24_GetterPure ==
    [][last'.op \in {"apply", "fault"} =>
          /\ mem' = mem
          /\ getter' = getter
          /\ vtbl' = vtbl
          /\ last'.op = "apply" =>
                \A q \in applied : q[1] = last'.base => q[2] = last'.res
          /\ getter.kind \in {"offs", "abs"} =>
                /\ last'.op = "apply"
                /\ \A m \in {Mem0, ZeroMem} :
                      PtrGetter(getter, m, last'.base) = last'.res]_vars

\* The same VfTableGetter returned the first table's slot for one object and
\* the second table's for the other, whose vtable pointer had been changed.
C24_Witness ==
    /\ getter = Vft(0, 0)
    /\ last.op = "apply"
    /\ last.base = ObjA
    /\ last.res = SlotValue(Tab2, 0)
    /\ <<ObjB, SlotValue(Tab1, 0)>> \in applied
    /\ PtrGetter(getter, Mem0, ObjA) # last.res

---------------------------------------------------------------------------
(* Properties of member construction, under SpecBind.                      *)

\* C25: creating the fields and function wrappers of a wrapper only records
\* their parent and PtrGetter: no PtrGetter is applied and no byte of memory
\* is loaded or stored, whether the parent address is null, invalid or valid
\* and whether the getter is an OffsGetter, an AbsGetter or a VfTableGetter;
\* a fault can only come from a later read, write or invocation.
C25_BindOnly ==
    [][/\ last'.op = "bind" =>
             /\ last'.touched = {}
             /\ mem' = mem
             /\ ~fault'
             /\ wrap'[last'.w].live
             /\ addressOfObj(wrap'[last'.w]) = last'.p
             /\ \A f \in FNames :
                   wrap'[last'.w].fields[f] =
                       [parent |-> last'.w, getter |-> FieldDecl[f].getter]
             /\ \A fn \in MemberFuncs : MemberFuncDecl(last'.w, fn).parent = last'.w
       /\ (fault' /\ ~fault) => last.op # "init" /\ wrap["dog"].live]_vars

\* A wrapper of the null address, one of whose fields is located by a
\* VfTableGetter, exists, and the first read through that field faulted.
C25_Witness ==
    /\ wrap["dog"].live
    /\ addressOfObj(wrap["dog"]) = NullPtr
    /\ wrap["dog"].fields["entry"].getter.kind = "vft"
    /\ fault
    /\ last.op = "fault"
    /\ mem = Mem0

---------------------------------------------------------------------------
(* Properties of the members' bindings, under SpecBound.                   *)

\* Where field f of a wrapper of the object at p lies, read off the
\* declarations.
DeclaredAt(m, p, f) ==
    CASE f = "age" -> WrapAddr(p + AgeOffs)
      [] f = "race" -> WrapAddr(p + RaceOffs)
      [] f = "link" -> Load(m, WrapAddr(p + RaceOffs), PtrSize)

\* C26: after any sequence of wrapper_cast, copy construction and assignment
\* of wrappers, every field and member function of a wrapper has that very
\* wrapper as its parent and the PtrGetter it was declared with; a copy's
\* fields are bound to the copy, and assigning b to a changes neither a's
\* bindings nor b, while every access through a's fields from then on goes to
\* b's object.
C26_MembersBound ==
    [][/\ \A w \in Wrappers : wrap'[w].live =>
             /\ \A f \in FNames :
                   /\ wrap'[w].fields[f].parent = w
                   /\ wrap'[w].fields[f].getter = FieldDecl[f].getter
             /\ \A fn \in MemberFuncs : MemberFuncDecl(w, fn).parent = w
       /\ last'.op = "copy" =>
             \A f \in FNames : wrap'[last'.dst].fields[f].parent = last'.dst
       /\ last'.op = "assign" =>
             /\ wrap'[last'.dst].fields = wrap[last'.dst].fields
             /\ wrap'[last'.src] = wrap[last'.src]
             /\ \A f \in BoundFields :
                   valueRef(wrap', mem', last'.dst, f)
                       = DeclaredAt(mem, addressOfObj(wrap[last'.src]), f)
       /\ last'.op = "read" =>
             last'.val = Load(mem, DeclaredAt(mem, addressOfObj(wrap[last'.w]), last'.f),
                              FieldSize(last'.f))
       /\ last'.op = "write" =>
             Load(mem', DeclaredAt(mem, addressOfObj(wrap[last'.w]), last'.f), 1)
                 = last'.v]_vars

\* A wrapper of the first object was assigned a wrapper of the second, whose
\* age had been set to 5: its age field now reads the second object's 5, and
\* the first object still holds its own age.
C26_Witness ==
    /\ last.op = "assign"
    /\ last.old = ObjA
    /\ addressOfObj(wrap[last.dst]) = ObjB
    /\ wrap[last.dst].fields["age"] = FieldBase(last.dst, Offs(AgeOffs))
    /\ FieldValue(wrap, mem, last.dst, "age") = 5
    /\ Load(mem, ObjA + AgeOffs, 1) = 3

---------------------------------------------------------------------------
(* Properties of the instance's buffer, under SpecOwned.                   *)

\* C27: from its creation to its teardown, and after any operation on it,
\* assignment through its wrapper base type included, an instantiable
\* wrapper's addressOfObj() is the address of its own buffer, and both hooks
\* run with the wrapper bound to that buffer.
C27_OwnBuffer ==
    /\ \A i \in InstIds :
          inst[i].st = "live" => addressOfObj(inst[i].w) = BufAddr(i)
    /\ \A k \in 1..Len(hooks) : hooks[k].this = BufAddr(hooks[k].inst)

\* What the code does for C27: the value is created bound to its own buffer
\* and the construction hook runs so bound; the address changes only by an
\* assignment through the wrapper base type, and the destruction hook runs
\* with whatever address the wrapper has then.
C27_OwnBufferUntilAssigned ==
    [][/\ last'.op = "create" =>
             /\ addressOfObj(inst'[last'.i].w) = BufAddr(last'.i)
             /\ \A k \in 1..Len(hooks') :
                   (hooks'[k].hook = "construct" /\ hooks'[k].inst = last'.i)
                       => hooks'[k].this = BufAddr(last'.i)
       /\ last'.op = "assignInstance" =>
             /\ addressOfObj(inst'[last'.i].w) = last'.p
             /\ hooks' = hooks
       /\ last'.op = "destroy" =>
             \A k \in (Len(hooks) + 1)..Len(hooks') :
                 hooks'[k].this = addressOfObj(inst[last'.i].w)
       /\ \A i \in InstIds :
             (inst[i].st = "live" /\ inst'[i].st = "live"
                 /\ ~(last'.op = "assignInstance" /\ last'.i = i))
                => addressOfObj(inst'[i].w) = addressOfObj(inst[i].w)]_vars

=============================================================================
